---- MODULE Spec2Model ----
(***************************************************************************)
(* Model of Multirole's git mirror synchronisation: GitRepo (the engine    *)
(* that fetches, diffs, resets and notifies observers) driven by           *)
(* WebhookEndpoint (the accept / read / acknowledge / callback listener).  *)
(*                                                                         *)
(* A tree is a function from paths to blob ids, 0 being the zero oid (the  *)
(* path is absent).  Paths are numbered in index (sorted) order.           *)
(***************************************************************************)
EXTENDS Integers, Sequences, FiniteSets, TLC

\* ---- bounds ----
NumPaths == 2
NumBlobs == 2
MaxPushes == 1
MaxConns == 1
MaxObservers == 2
NumThreads == 2
MaxMsgLen == 2
NumSyms == 2
MaxStops == 2
MaxPathLen == 2

\* ---- program constants ----
\* std::string(' ', 255) is string(count = ' ' = 32, ch = char(255))
BufLen == 32
FillByte == 255
\* the second argument of that constructor call, meant as the read budget
ReadBudget == 255

Paths == 1..NumPaths
Trees == [Paths -> 0..NumBlobs]
EmptyTree == [p \in Paths |-> 0]
\* the observers that may be registered
Obs == 1..MaxObservers
Threads == 1..NumThreads

\* the configured webhookToken
token == <<1, 2>>

RECURSIVE SeqsUpTo(_)
SeqsUpTo(n) ==
  IF n = 0 THEN {<<>>}
  ELSE LET S == SeqsUpTo(n - 1)
       IN  S \cup {Append(s, b) : s \in {x \in S : Len(x) = n - 1}, b \in 1..NumSyms}

\* a message longer than the read buffer: the token starts at its last byte
LongMessages == {[i \in 1..(BufLen - 1) |-> token[1]] \o token}

\* what a peer may send on one connection before the read completes
Messages == (SeqsUpTo(MaxMsgLen) \ {<<>>}) \cup LongMessages

\* the characters of the literal "HTTP/1.0 200 OK\r\n"
Ack == <<72, 84, 84, 80, 47, 49, 46, 48, 32, 50, 48, 48, 32, 79, 75, 13, 10>>

\* asio::buffer("HTTP/1.0 200 OK\r\n"): the buffer over the whole array
\* const char[18], the literal's terminating '\0' included
AckBuffer == Ack \o <<0>>

\* how many bytes of the buffer a failing asio::write got out before it threw
PartialWrites == {0, Len(AckBuffer) - 1}

Range(s) == {s[i] : i \in 1..Len(s)}

Min(a, b) == IF a < b THEN a ELSE b

\* std::string_view::find(token) != npos
Contains(s, sub) ==
  \E i \in 0..(Len(s) - Len(sub)) :
    \A j \in 1..Len(sub) : s[i + j] = sub[j]

\* the string handed to Callback: the 32-byte buffer, its first bytes
\* overwritten by what async_read_some read, then '\0' appended
MakePayload(msg) ==
  LET n == Min(Len(msg), BufLen)
  IN  [i \in 1..(BufLen + 1) |->
         IF i <= n THEN msg[i]
         ELSE IF i <= BufLen THEN FillByte
         ELSE 0]

\* the characters of a path: a name character and the two separators
PathChars == {"d", "/", "\\"}

RECURSIVE PathsUpTo(_)
PathsUpTo(n) ==
  IF n = 0 THEN {<<>>}
  ELSE LET S == PathsUpTo(n - 1)
       IN  S \cup {Append(s, ch) : s \in {x \in S : Len(x) = n - 1}, ch \in PathChars}

\* the values the "path" option may have
PathStrings == PathsUpTo(MaxPathLen)

\* the "path" option of the configuration the service runs with
ConfiguredPath == <<"d">>

\* std::string::back()
Back(str) == str[Len(str)]

\* NormalizeDirPath, for a non-empty str
NormalizeDirPath(str) ==
  IF Back(str) # "/" \/ Back(str) # "\\" THEN Append(str, "/") ELSE str

\* what NormalizeDirPath may return: back() of an empty string is undefined,
\* the test may come out either way
NormalizedPaths(str) ==
  IF str = <<>> THEN {<<>>, <<"/">>} ELSE {NormalizeDirPath(str)}

EmptyDiff == [added |-> <<>>, removed |-> <<>>]

\* a changed blob reported as removed only
FileCb_ChangedAsRemoved(diff, oldId, newId, p) ==
  IF oldId = 0
  THEN [diff EXCEPT !.added = Append(@, p)]
  ELSE [diff EXCEPT !.removed = Append(@, p)]

\* the FileCb lambda of GetFilesDiff
FileCb(diff, oldId, newId, p) ==
  IF oldId = 0
  THEN [diff EXCEPT !.added = Append(@, p)]
  ELSE IF newId = 0
  THEN [diff EXCEPT !.removed = Append(@, p)]
  ELSE [added |-> Append(diff.added, p), removed |-> Append(diff.removed, p)]

\* git_diff_foreach over the deltas of git_diff_tree_to_tree(t1, t2)
RECURSIVE DiffForeach(_, _, _, _)
DiffForeach(t1, t2, p, diff) ==
  IF p > NumPaths THEN diff
  ELSE DiffForeach(t1, t2, p + 1,
         IF t1[p] # t2[p] THEN FileCb(diff, t1[p], t2[p], p) ELSE diff)

\* the two trees swapped: git diff FETCH_HEAD..
GetFilesDiff_Swapped(t1, t2) == DiffForeach(t2, t1, 1, EmptyDiff)

\* git diff ..FETCH_HEAD
GetFilesDiff(t1, t2) == DiffForeach(t1, t2, 1, EmptyDiff)

\* git ls-files: the index entries by index position
RECURSIVE ListEntries(_, _, _)
ListEntries(idx, p, pv) ==
  IF p > NumPaths THEN pv
  ELSE ListEntries(idx, p + 1, IF idx[p] # 0 THEN Append(pv, p) ELSE pv)

\* the loop bound off by one: the last index entry is left out
GetTrackedFiles_SkipLast(idx) ==
  LET pv == ListEntries(idx, 1, <<>>)
  IN  IF pv = <<>> THEN pv ELSE SubSeq(pv, 1, Len(pv) - 1)

GetTrackedFiles(idx) == ListEntries(idx, 1, <<>>)

DiffIsEmpty(d) == d.removed = <<>> /\ d.added = <<>>

\* a diff applied to a set of paths: removed paths out, then added paths in
ApplyDiff(files, d) == (files \ Range(d.removed)) \cup Range(d.added)

\* history of one trigger: what Callback saw on entry and did since
NoCycle == [outcome |-> "none", preHead |-> EmptyTree, preFetch |-> EmptyTree,
            preIndex |-> EmptyTree, preObs |-> <<>>, steps |-> <<>>,
            calls |-> <<>>]
\* history of one AddObserver call
NoAdd == [obs |-> 0, returned |-> FALSE, before |-> <<>>, tracked |-> <<>>,
          onAdd |-> <<>>]

VARIABLES
  phase,        \* "start", "building", "constructed", "running", "failed",
                \* "escaped", "destroyed"
  isDir,        \* boost::filesystem::is_directory(path)
  repoExists,   \* CheckIfRepoExists()
  optPath,      \* opts.at("path")
  path,         \* the member path
  repo,         \* the git_repository* : "null", "open", "freed"
  frees,        \* history: git_repository_free calls on a non-null pointer
  upstream,     \* tree of the remote's branch
  pushes,       \* number of upstream changes so far
  head,         \* tree of the mirror's HEAD
  fetchHead,    \* tree of the mirror's FETCH_HEAD
  index,        \* the mirror's index (working tree)
  observers,    \* std::vector<IGitRepoObserver*>
  acceptorOpen, \* acceptor.is_open()
  acceptOp,     \* the async_accept: "none" or "pending"
  connState,    \* per socket slot: "unused", "reading", "handling"
  io,           \* history, per socket slot: what the listener did on it
  sent,         \* history, per socket slot: the bytes written to the peer
  rcvd,         \* history, per socket slot: the bytes the read delivered
  pc,           \* per executor thread: position in the running handler
                \* ("idle" between handlers, "dropped" after a failed read)
  conn,         \* per executor thread: connection whose handler it runs
  payload,      \* per executor thread: the string handed to Callback
  diff,         \* per executor thread: the local GitDiff of Callback
  ni,           \* per executor thread: position of the range-for over observers
  cyc,          \* history: what the trigger in progress saw and did
  lastAdd,      \* history: the AddObserver call in progress
  applied,      \* history: baseline with every computed diff applied
  stops         \* history: number of Stop() calls

vars == <<phase, isDir, repoExists, optPath, path, repo, frees, upstream,
          pushes, head, fetchHead,
          index, observers, acceptorOpen, acceptOp, connState, io, sent,
          rcvd, pc, conn, payload, diff, ni, cyc, lastAdd, applied, stops>>

gitVars == <<repo, frees, head, fetchHead, index>>
webVars == <<acceptorOpen, acceptOp, connState, io, sent, rcvd>>
\* the history of the socket slots
wireVars == <<io, sent, rcvd>>
threadVars == <<pc, conn, payload, diff, ni, cyc>>
histVars == <<lastAdd, applied, stops>>
cfgVars == <<isDir, repoExists, optPath, path>>

\* the remote starts empty, or with its first path at its first version
InitialUpstreams ==
  {tr \in Trees : \A p \in Paths : tr[p] <= (IF p = 1 THEN 1 ELSE 0)}

AllIdle == \A t \in Threads : pc[t] = "idle"

\* the state before construction, with the given socket slots and the
\* "path" option drawn from the given strings
InitWith(slots, pathOpts) ==
  /\ phase = "start"
  /\ isDir \in BOOLEAN
  /\ repoExists \in BOOLEAN
  /\ optPath \in pathOpts
  /\ path = <<>>
  /\ repo = "null"
  /\ frees = 0
  /\ upstream \in InitialUpstreams
  /\ pushes = 0
  /\ head \in (IF repoExists THEN Trees ELSE {EmptyTree})
  /\ fetchHead = head
  /\ index = head
  /\ observers = <<>>
  /\ acceptorOpen = FALSE
  /\ acceptOp = "none"
  /\ connState = [c \in slots |-> "unused"]
  /\ io = [c \in slots |-> <<>>]
  /\ sent = [c \in slots |-> <<>>]
  /\ rcvd = [c \in slots |-> <<>>]
  /\ pc = [t \in Threads |-> "idle"]
  /\ conn = [t \in Threads |-> 0]
  /\ payload = [t \in Threads |-> <<>>]
  /\ diff = [t \in Threads |-> EmptyDiff]
  /\ ni = [t \in Threads |-> 0]
  /\ cyc = [t \in Threads |-> NoCycle]
  /\ lastAdd = NoAdd
  /\ applied = {}
  /\ stops = 0

Init == InitWith(1..MaxConns, {ConfiguredPath})

\* ------------------------------------------------------------------------
\* construction: WebhookEndpoint::WebhookEndpoint, then GitRepo::GitRepo's
\* body, on the thread that builds the service; no completion handler runs
\* before io_context::run

\* the member initialisers of GitRepo: Webhook(ioCtx, port) binds the
\* acceptor and its DoAccept() arms the first async_accept, then
\* path(NormalizeDirPath(...)) and repo(nullptr)
MemberInit ==
  /\ phase = "start"
  /\ \/ \* the acceptor cannot bind the port: its constructor throws
        /\ phase' = "failed"
        /\ UNCHANGED <<acceptorOpen, acceptOp, path>>
     \/ /\ phase' = "building"
        /\ acceptorOpen' = TRUE
        /\ acceptOp' = "pending"
        /\ path' \in NormalizedPaths(optPath)
  /\ UNCHANGED <<isDir, repoExists, optPath, gitVars, upstream, pushes,
                 observers, connState, wireVars, threadVars, histVars>>

\* the listener survives the failed construction
CtorThrows_ListenerKept ==
  /\ phase' = "failed"
  /\ UNCHANGED <<acceptorOpen, acceptOp>>
  /\ applied' = applied

\* the constructor's body throws: the Webhook subobject, already built, is
\* destroyed with its acceptor; ~GitRepo does not run
CtorThrows ==
  /\ phase' = "failed"
  /\ acceptorOpen' = FALSE
  /\ acceptOp' = "none"
  /\ applied' = applied

\* the constructor returns
CtorReturns ==
  /\ phase' = "constructed"
  /\ UNCHANGED <<acceptorOpen, acceptOp>>
  /\ applied' = Range(GetTrackedFiles(index'))

\* git_repository_free(r): what r points to afterwards (a null pointer is
\* ignored, the pointer itself is never reset)
GitRepositoryFree(r) == IF r = "null" THEN "null" ELSE "freed"

\* the number of handles the call git_repository_free(r) releases
FreedBy(r) == IF r = "null" THEN 0 ELSE 1

\* the body of GitRepo::GitRepo, on the thread that builds the service; no
\* completion handler runs before io_context::run
Construct ==
  /\ phase = "building"
  /\ UNCHANGED <<cfgVars, upstream, pushes, observers, connState, wireVars,
                 threadVars, lastAdd, stops>>
  /\ \/ \* is_directory(path) is false
        /\ ~isDir
        /\ CtorThrows
        /\ UNCHANGED gitVars
     \/ \* no repository at path: Clone() succeeds
        /\ isDir /\ ~repoExists
        /\ repo' = "open"
        /\ head' = upstream /\ fetchHead' = upstream /\ index' = upstream
        /\ UNCHANGED frees
        /\ CtorReturns
     \/ \* no repository at path: git_clone fails, repo stays null
        /\ isDir /\ ~repoExists
        /\ CtorThrows
        /\ UNCHANGED gitVars
     \/ \* git_repository_open fails, repo stays null
        /\ isDir /\ repoExists
        /\ CtorThrows
        /\ UNCHANGED gitVars
     \/ \* Fetch() throws: the catch block runs, the exception is rethrown
        /\ isDir /\ repoExists
        /\ repo' = GitRepositoryFree("open")
        /\ frees' = frees + FreedBy("open")
        /\ fetchHead' \in {fetchHead, upstream}
        /\ UNCHANGED <<head, index>>
        /\ CtorThrows
     \/ \* ResetToFetchHead() throws: the catch block runs, the exception is
        \* rethrown
        /\ isDir /\ repoExists
        /\ repo' = GitRepositoryFree("open")
        /\ frees' = frees + FreedBy("open")
        /\ fetchHead' = upstream
        /\ UNCHANGED <<head, index>>
        /\ CtorThrows
     \/ \* open, Fetch() and ResetToFetchHead() succeed
        /\ isDir /\ repoExists
        /\ repo' = "open"
        /\ head' = upstream /\ fetchHead' = upstream /\ index' = upstream
        /\ UNCHANGED frees
        /\ CtorReturns

\* the destructor runs for a constructor that threw as well
DtorRuns_AfterThrow(ph) == ph \in {"constructed", "running", "failed"}

\* the service object is destroyed only if its constructor returned
DtorRuns(ph) == ph \in {"constructed", "running"}

\* shutdown: ~GitRepo releases the handle, then ~WebhookEndpoint destroys
\* the acceptor with its pending async_accept
Destroy ==
  /\ DtorRuns(phase)
  /\ AllIdle
  /\ lastAdd.obs = 0
  /\ phase' = "destroyed"
  /\ repo' = GitRepositoryFree(repo)
  /\ frees' = frees + FreedBy(repo)
  /\ acceptorOpen' = FALSE
  /\ acceptOp' = "none"
  /\ UNCHANGED <<cfgVars, head, fetchHead, index, upstream, pushes, observers,
                 connState, wireVars, threadVars, histVars>>

\* Instance::Run: the executor starts running completion handlers
Run ==
  /\ phase = "constructed"
  /\ lastAdd.obs = 0
  /\ phase' = "running"
  /\ UNCHANGED <<cfgVars, gitVars, upstream, pushes, observers, webVars,
                 threadVars, histVars>>

\* the remote's branch moves to another tree
Push ==
  /\ pushes < MaxPushes
  /\ phase \in {"constructed", "running"}
  /\ \E tr \in Trees \ {upstream} : upstream' = tr
  /\ pushes' = pushes + 1
  /\ UNCHANGED <<phase, cfgVars, gitVars, observers, webVars, threadVars,
                 histVars>>

\* ------------------------------------------------------------------------
\* GitRepo::AddObserver, called between handlers

\* if(const PathVector pv = GetTrackedFiles(); !pv.empty()) obs.OnAdd(path, pv);
InitialCalls(pv) == IF pv # <<>> THEN <<pv>> ELSE <<>>

AddObserver(o) ==
  /\ phase \in {"constructed", "running"}
  /\ AllIdle
  /\ lastAdd.obs = 0
  /\ Len(observers) < MaxObservers
  /\ observers' = Append(observers, o)
  /\ \/ \* GetTrackedFiles() returns pv; OnAdd is called if pv is not empty
        LET pv == GetTrackedFiles(index)
        IN  lastAdd' = [obs |-> o, returned |-> TRUE, before |-> observers,
                        tracked |-> pv,
                        onAdd |-> InitialCalls(pv)]
     \/ \* git_repository_index fails: GetTrackedFiles() throws
        lastAdd' = [obs |-> o, returned |-> FALSE, before |-> observers,
                    tracked |-> GetTrackedFiles(index), onAdd |-> <<>>]
  /\ UNCHANGED <<phase, cfgVars, gitVars, upstream, pushes, webVars,
                 threadVars, applied, stops>>

\* control is back in AddObserver's caller
AddObserverDone ==
  /\ lastAdd.obs # 0
  /\ lastAdd' = NoAdd
  /\ UNCHANGED <<phase, cfgVars, gitVars, upstream, pushes, observers,
                 webVars, threadVars, applied, stops>>

\* ------------------------------------------------------------------------
\* WebhookEndpoint

\* WebhookEndpoint::Stop: acceptor.close(); a pending async_accept completes
\* with operation_aborted, its handler still to run
Stop ==
  /\ phase \in {"constructed", "running"}
  /\ stops < MaxStops
  /\ acceptorOpen' = FALSE
  /\ stops' = stops + 1
  /\ UNCHANGED <<phase, cfgVars, gitVars, upstream, pushes, observers,
                 acceptOp, connState, wireVars, threadVars, lastAdd, applied>>

\* the sockets that may be open at a time
Conns == DOMAIN connState

FreeConns == {c \in Conns : connState[c] = "unused"}

\* the is_open test left out
AcceptContinues_Always(open) == TRUE

\* if(!acceptor.is_open()) return;
AcceptContinues(open) == open

\* DoAccept's completion handler, whole: it touches only the acceptor
AcceptHandler(t) ==
  /\ phase = "running"
  /\ lastAdd.obs = 0
  /\ pc[t] = "idle"
  /\ acceptOp = "pending"
  /\ \/ \* the acceptor is closed: return
        /\ ~AcceptContinues(acceptorOpen)
        /\ acceptOp' = "none"
        /\ UNCHANGED <<connState, io>>
     \/ \* ec set: DoAccept() again
        /\ AcceptContinues(acceptorOpen)
        /\ acceptOp' = "pending"
        /\ UNCHANGED <<connState, io>>
     \/ \* !ec: DoReadHeader(soc) starts the read, then DoAccept() again
        /\ AcceptContinues(acceptorOpen)
        /\ FreeConns # {}
        /\ LET c == CHOOSE x \in FreeConns : \A y \in FreeConns : x <= y
           IN  /\ connState' = [connState EXCEPT ![c] = "reading"]
               /\ io' = [io EXCEPT ![c] = <<"read">>]
        /\ acceptOp' = "pending"
  /\ UNCHANGED <<phase, cfgVars, gitVars, upstream, pushes, observers,
                 acceptorOpen, sent, rcvd, threadVars, histVars>>

\* the completion handler of async_read_some, up to the call of Callback
ReadHandler(t, c) ==
  /\ phase = "running"
  /\ lastAdd.obs = 0
  /\ pc[t] = "idle"
  /\ connState[c] = "reading"
  /\ connState' = [connState EXCEPT ![c] = "handling"]
  /\ conn' = [conn EXCEPT ![t] = c]
  /\ \/ \* if(ec) return;  (an error, or end of file on a zero-byte read)
        /\ io' = [io EXCEPT ![c] = Append(@, "read failed")]
        /\ pc' = [pc EXCEPT ![t] = "dropped"]
        /\ UNCHANGED <<phase, sent, rcvd, payload>>
     \/ \* asio::write throws asio::system_error: nothing in the handler
        \* catches it, it leaves io_context::run
        \E msg \in Messages, n \in PartialWrites :
          /\ io' = [io EXCEPT ![c] = @ \o <<"read ok", "write">>]
          /\ rcvd' = [rcvd EXCEPT ![c] = msg]
          /\ sent' = [sent EXCEPT ![c] = SubSeq(AckBuffer, 1, n)]
          /\ pc' = [pc EXCEPT ![t] = "dropped"]
          /\ phase' = "escaped"
          /\ UNCHANGED payload
     \/ \* the acknowledgement is written, the payload terminated
        \E msg \in Messages :
          /\ io' = [io EXCEPT ![c] = @ \o <<"read ok", "write">>]
          /\ rcvd' = [rcvd EXCEPT ![c] = msg]
          /\ sent' = [sent EXCEPT ![c] = AckBuffer]
          /\ pc' = [pc EXCEPT ![t] = "callback"]
          /\ payload' = [payload EXCEPT ![t] = MakePayload(msg)]
          /\ phase' = phase
  /\ UNCHANGED <<cfgVars, gitVars, upstream, pushes, observers,
                 acceptorOpen, acceptOp, diff, ni, cyc, histVars>>

\* the handler returns: socPtr and payload, held by the lambda, are released
Released(t) ==
  /\ connState' = [connState EXCEPT ![conn[t]] = "unused"]
  /\ io' = [io EXCEPT ![conn[t]] = <<>>]
  /\ sent' = [sent EXCEPT ![conn[t]] = <<>>]
  /\ rcvd' = [rcvd EXCEPT ![conn[t]] = <<>>]
  /\ pc' = [pc EXCEPT ![t] = "idle"]
  /\ conn' = [conn EXCEPT ![t] = 0]
  /\ payload' = [payload EXCEPT ![t] = <<>>]
  /\ diff' = [diff EXCEPT ![t] = EmptyDiff]
  /\ ni' = [ni EXCEPT ![t] = 0]
  /\ cyc' = [cyc EXCEPT ![t] = NoCycle]

\* the handler, with or without a call of Callback, is over
HandlerReturn(t) ==
  /\ phase = "running"
  /\ pc[t] \in {"return", "dropped"}
  /\ Released(t)
  /\ UNCHANGED <<phase, cfgVars, gitVars, upstream, pushes, observers,
                 acceptorOpen, acceptOp, histVars>>

\* ------------------------------------------------------------------------
\* GitRepo::Callback, one step per call it makes

\* the token test left out
TokenFound_NoTest(p) == TRUE

\* payload.find(token) != std::string_view::npos
TokenFound(p) == Contains(p, token)

\* no catch block: the exception leaves Callback and the handler
Abort_Uncaught(t, step) ==
  /\ phase' = "escaped"
  /\ pc' = [pc EXCEPT ![t] = "return"]
  /\ cyc' = [cyc EXCEPT ![t].outcome = "aborted",
                        ![t].steps = Append(@, step)]

\* a step of the try block threw a std::exception: the catch block logs it
\* and Callback returns
Abort(t, step) ==
  /\ phase' = phase
  /\ pc' = [pc EXCEPT ![t] = "return"]
  /\ cyc' = [cyc EXCEPT ![t].outcome = "aborted",
                        ![t].steps = Append(@, step)]

\* the reset moved before the diff
TryBlock_ResetBeforeDiff == <<"fetch", "reset", "diff", "notify">>

\* the statements of Callback's try block, in program order
TryBlock == <<"fetch", "diff", "reset", "notify">>

\* the statement that follows step in the try block
StepAfter(step) ==
  TryBlock[(CHOOSE i \in 1..Len(TryBlock) : TryBlock[i] = step) + 1]

\* entry of Callback: the token test
CallbackEntry(t) ==
  /\ phase = "running"
  /\ pc[t] = "callback"
  /\ cyc' = [cyc EXCEPT ![t] =
       [outcome |-> IF TokenFound(payload[t]) THEN "running" ELSE "rejected",
        preHead |-> head, preFetch |-> fetchHead, preIndex |-> index,
        preObs |-> observers, steps |-> <<>>, calls |-> <<>>]]
  /\ pc' = [pc EXCEPT ![t] =
              IF TokenFound(payload[t]) THEN TryBlock[1] ELSE "return"]
  /\ io' = [io EXCEPT ![conn[t]] = Append(@, "callback")]
  /\ UNCHANGED <<phase, cfgVars, gitVars, upstream, pushes, observers,
                 acceptorOpen, acceptOp, connState, sent, rcvd, conn, payload,
                 diff, ni, histVars>>

\* Fetch(): git_remote_fetch writes FETCH_HEAD
Fetch(t) ==
  /\ phase = "running"
  /\ pc[t] = "fetch"
  /\ \/ /\ fetchHead' = upstream
        /\ pc' = [pc EXCEPT ![t] = StepAfter("fetch")]
        /\ cyc' = [cyc EXCEPT ![t].steps = Append(@, "fetch")]
        /\ phase' = phase
     \/ \* the fetch fails, before or after FETCH_HEAD was written
        /\ fetchHead' \in {fetchHead, upstream}
        /\ Abort(t, "fetch")
  /\ UNCHANGED <<cfgVars, repo, frees, head, index, upstream, pushes,
                 observers, webVars, conn, payload, diff, ni, histVars>>

\* const GitDiff diff = GetFilesDiff();
Diff(t) ==
  /\ phase = "running"
  /\ pc[t] = "diff"
  /\ \/ /\ diff' = [diff EXCEPT ![t] = GetFilesDiff(head, fetchHead)]
        /\ pc' = [pc EXCEPT ![t] = StepAfter("diff")]
        /\ cyc' = [cyc EXCEPT ![t].steps = Append(@, "diff")]
        /\ phase' = phase
     \/ \* a revparse, peel or diff call fails
        /\ Abort(t, "diff")
        /\ UNCHANGED diff
  /\ UNCHANGED <<cfgVars, gitVars, upstream, pushes, observers,
                 webVars, conn, payload, ni, histVars>>

\* git reset --hard HEAD instead of FETCH_HEAD
ResetTarget_Head(h, fh) == h

\* the revision git_reset moves HEAD, index and working tree to
ResetTarget(h, fh) == fh

\* the emptiness test left out
ShouldNotify_Always(d) == TRUE

\* if(!diff.removed.empty() || !diff.added.empty())
ShouldNotify(d) == ~DiffIsEmpty(d)

\* ResetToFetchHead(), then the test that guards the notification loop
Reset(t) ==
  /\ phase = "running"
  /\ pc[t] = "reset"
  /\ \/ /\ head' = ResetTarget(head, fetchHead)
        /\ index' = ResetTarget(head, fetchHead)
        /\ applied' = ApplyDiff(applied, diff[t])
        /\ phase' = phase
        /\ IF ShouldNotify(diff[t]) /\ observers # <<>>
           THEN /\ pc' = [pc EXCEPT ![t] = StepAfter("reset")]
                /\ ni' = [ni EXCEPT ![t] = 1]
                /\ cyc' = [cyc EXCEPT ![t].steps = Append(@, "reset")]
           ELSE /\ pc' = [pc EXCEPT ![t] = "return"]
                /\ ni' = ni
                /\ cyc' = [cyc EXCEPT ![t].steps = Append(@, "reset"),
                                      ![t].outcome = "synced"]
     \/ \* git_reset fails: HEAD and index are left as they were
        /\ Abort(t, "reset")
        /\ UNCHANGED <<head, index, applied, ni>>
  /\ UNCHANGED <<cfgVars, repo, frees, fetchHead, upstream, pushes,
                 observers, webVars, conn, payload, diff, lastAdd, stops>>

\* one iteration of for(auto& obs : observers) obs->OnDiff(path, diff);
Notify(t) ==
  /\ phase = "running"
  /\ pc[t] = "notify"
  /\ LET call == [obs |-> observers[ni[t]], diff |-> diff[t]]
     IN  \/ \* OnDiff returns
            /\ ni' = [ni EXCEPT ![t] = @ + 1]
            /\ IF ni[t] < Len(observers)
               THEN /\ pc' = pc
                    /\ cyc' = [cyc EXCEPT ![t].calls = Append(@, call)]
               ELSE /\ pc' = [pc EXCEPT ![t] = "return"]
                    /\ cyc' = [cyc EXCEPT ![t].calls = Append(@, call),
                                          ![t].outcome = "synced"]
         \/ \* OnDiff throws a std::exception: the catch block ends the loop
            /\ ni' = ni
            /\ pc' = [pc EXCEPT ![t] = "return"]
            /\ cyc' = [cyc EXCEPT ![t].calls = Append(@, call),
                                  ![t].outcome = "observer threw"]
  /\ UNCHANGED <<phase, cfgVars, gitVars, upstream, pushes, observers,
                 webVars, conn, payload, diff, histVars>>

\* ------------------------------------------------------------------------
\* the executor runs one handler at a time on one thread
Workers == {1}

Handlers(t) ==
  \/ AcceptHandler(t)
  \/ \E c \in Conns : ReadHandler(t, c)
  \/ CallbackEntry(t)
  \/ Fetch(t)
  \/ Diff(t)
  \/ Reset(t)
  \/ Notify(t)
  \/ HandlerReturn(t)

Next ==
  \/ MemberInit
  \/ Construct
  \/ Destroy
  \/ Run
  \/ Push
  \/ \E o \in Obs : AddObserver(o)
  \/ AddObserverDone
  \/ Stop
  \/ \E t \in Workers : Handlers(t)

Spec == Init /\ [][Next]_vars

\* ------------------------------------------------------------------------
\* additional executor threads attached to the same io_context
InitMT ==
  /\ InitWith(Threads, {ConfiguredPath})
  /\ isDir
  /\ ~repoExists

NextMT ==
  \/ MemberInit
  \/ Construct
  \/ Run
  \/ Push
  \/ \E o \in Obs : AddObserver(o)
  \/ AddObserverDone
  \/ \E t \in Threads : Handlers(t)

SpecMT == InitMT /\ [][NextMT]_vars

\* ------------------------------------------------------------------------
\* GetFilesDiff on any pair of trees: a running service whose thread has
\* fetched and is about to call GetFilesDiff(), HEAD and FETCH_HEAD being
\* any two trees
InitDiff ==
  /\ phase = "running"
  /\ isDir = TRUE
  /\ repoExists = TRUE
  /\ optPath = ConfiguredPath
  /\ path = NormalizeDirPath(ConfiguredPath)
  /\ repo = "open"
  /\ frees = 0
  /\ head \in Trees
  /\ fetchHead \in Trees
  /\ index = head
  /\ upstream = fetchHead
  /\ pushes = IF fetchHead = head THEN 0 ELSE 1
  /\ observers = <<>>
  /\ acceptorOpen = TRUE
  /\ acceptOp = "pending"
  /\ connState = [c \in 1..MaxConns |-> IF c = 1 THEN "handling" ELSE "unused"]
  /\ io = [c \in 1..MaxConns |->
            IF c = 1 THEN <<"read", "read ok", "write", "callback">> ELSE <<>>]
  /\ sent = [c \in 1..MaxConns |-> IF c = 1 THEN AckBuffer ELSE <<>>]
  /\ rcvd = [c \in 1..MaxConns |-> IF c = 1 THEN token ELSE <<>>]
  /\ pc = [t \in Threads |-> IF t = 1 THEN "diff" ELSE "idle"]
  /\ conn = [t \in Threads |-> IF t = 1 THEN 1 ELSE 0]
  /\ payload = [t \in Threads |-> IF t = 1 THEN MakePayload(token) ELSE <<>>]
  /\ diff = [t \in Threads |-> EmptyDiff]
  /\ ni = [t \in Threads |-> 0]
  /\ cyc = [t \in Threads |->
             IF t = 1
             THEN [outcome |-> "running", preHead |-> head, preFetch |-> head,
                   preIndex |-> head, preObs |-> <<>>, steps |-> <<"fetch">>,
                   calls |-> <<>>]
             ELSE NoCycle]
  /\ lastAdd = NoAdd
  /\ applied = Range(GetTrackedFiles(head))
  /\ stops = 0

NextDiff == \E t \in Workers : Diff(t)

SpecDiff == InitDiff /\ [][NextDiff]_vars

\* ------------------------------------------------------------------------
\* NormalizeDirPath on any "path" option: the member initialisers run with
\* the option drawn from the bounded strings
InitPath == InitWith(1..MaxConns, PathStrings)

NextPath == MemberInit

SpecPath == InitPath /\ [][NextPath]_vars

\* ------------------------------------------------------------------------
\* properties

\* thread t is inside the try block of Callback
InCycle(t) == pc[t] \in {"fetch", "diff", "reset", "notify"}

\* fetch, diff and reset of t's trigger all succeeded
Synced(t) ==
  /\ pc[t] = "return"
  /\ cyc[t].outcome \in {"synced", "observer threw"}

\* number of OnDiff calls of t's trigger made to observer o with diff d
CallsTo(t, o, d) ==
  Cardinality({i \in 1..Len(cyc[t].calls) :
                 cyc[t].calls[i] = [obs |-> o, diff |-> d]})

\* C1: a trigger whose payload does not contain the token never enters the
\* try block (no fetch, no diff, no reset, no OnDiff), and when Callback
\* returns the mirror head, the fetched head, the index and the observer
\* list are what they were when it was entered.
C1_RejectedTriggerIsNoOp ==
  \A t \in Threads :
    ~Contains(payload[t], token) =>
      /\ ~InCycle(t)
      /\ pc[t] = "return" =>
           /\ cyc[t].outcome = "rejected"
           /\ cyc[t].steps = <<>>
           /\ cyc[t].calls = <<>>
           /\ head = cyc[t].preHead
           /\ fetchHead = cyc[t].preFetch
           /\ index = cyc[t].preIndex
           /\ observers = cyc[t].preObs

\* a rejected trigger has returned although upstream is ahead of the mirror
\* and an observer is registered
C1_Witness ==
  \E t \in Threads :
    /\ pc[t] = "return"
    /\ cyc[t].outcome = "rejected"
    /\ observers # <<>>
    /\ upstream # head

\* C2: in a cycle whose fetch, diff and reset succeeded with a non-empty
\* diff, every observer registered before the cycle began has received
\* exactly one OnDiff call carrying that diff when Callback returns, and
\* no OnDiff call went to anything not registered then.
C2_EachObserverNotifiedOnce ==
  \A t \in Threads :
    (Synced(t) /\ ~DiffIsEmpty(diff[t])) =>
      /\ \A o \in Range(cyc[t].preObs) : CallsTo(t, o, diff[t]) = 1
      /\ \A i \in 1..Len(cyc[t].calls) :
           /\ cyc[t].calls[i].obs \in Range(cyc[t].preObs)
           /\ cyc[t].calls[i].diff = diff[t]

\* C3: when fetch, diff or reset fails the cycle stops at the failing step:
\* the steps run are a prefix ending at it, a diff is not computed after a
\* failed fetch, no OnDiff is made, HEAD and index are what they were at
\* entry, and the exception stays inside Callback (the executor runs on).
C3_FailureAbortsCycle ==
  \A t \in Threads :
    (pc[t] = "return" /\ cyc[t].outcome = "aborted") =>
      /\ cyc[t].steps \in {<<"fetch">>, <<"fetch", "diff">>,
                           <<"fetch", "diff", "reset">>}
      /\ cyc[t].steps = <<"fetch">> => diff[t] = EmptyDiff
      /\ cyc[t].calls = <<>>
      /\ head = cyc[t].preHead
      /\ index = cyc[t].preIndex
      /\ phase = "running"
      /\ ENABLED HandlerReturn(t)

\* a cycle completed with a non-empty diff after an earlier cycle had
\* fetched and then aborted (FETCH_HEAD was ahead of HEAD at entry)
C3_Witness ==
  \E t \in Threads :
    /\ Synced(t)
    /\ cyc[t].preFetch # cyc[t].preHead
    /\ ~DiffIsEmpty(diff[t])
    /\ head = upstream

\* C4: no two threads are inside the try block of Callback (fetch, diff,
\* reset, notification pass) at the same time.
C4_CyclesNeverOverlap ==
  \A t1, t2 \in Threads : (InCycle(t1) /\ InCycle(t2)) => t1 = t2

C6_UnchangedUpstreamIsSilent ==
  \A t \in Threads :
    (/\ pc[t] \in {"reset", "notify", "return"}
     /\ "diff" \in Range(cyc[t].steps)
     /\ fetchHead = cyc[t].preHead) =>
      /\ diff[t].added = <<>>
      /\ diff[t].removed = <<>>
      /\ pc[t] # "notify"
      /\ cyc[t].calls = <<>>

\* a trigger repeated after the mirror caught up with a changed, non-empty
\* upstream, an observer being registered, synced without a call
C6_Witness ==
  \E t \in Threads :
    /\ Synced(t)
    /\ pushes > 0
    /\ upstream = head
    /\ head = cyc[t].preHead
    /\ head # EmptyTree
    /\ observers # <<>>
    /\ cyc[t].calls = <<>>

\* the paths of the index, in index order
IsTrackedList(pv, idx) ==
  /\ Range(pv) = {p \in Paths : idx[p] # 0}
  /\ \A i, j \in 1..Len(pv) : i < j => pv[i] < pv[j]

C8_MirrorAtFetchedHead ==
  /\ repo = "open" => index = head
  /\ phase = "constructed" => head = fetchHead
  /\ \A t \in Threads :
       /\ Synced(t) => head = fetchHead
       /\ (InCycle(t) \/ pc[t] = "return") =>
            head \in {cyc[t].preHead, fetchHead}
       /\ (pc[t] = "return" /\ cyc[t].outcome \in {"aborted", "rejected"}) =>
            head = cyc[t].preHead

\* a cycle moved the mirror to a fetched head other than its entry head
C8_Witness ==
  \E t \in Threads :
    /\ Synced(t)
    /\ head # cyc[t].preHead
    /\ head = upstream

\* C9: while the listener is open an accept is pending and the executor is
\* running handlers, whatever happened on the accepted connections.
C9_AcceptLoopSurvives ==
  (acceptorOpen /\ phase \in {"running", "escaped"}) =>
    /\ acceptOp = "pending"
    /\ phase = "running"

\* C10: once Stop() has closed the acceptor it stays closed, no socket
\* starts a read, the aborted accept's handler returns without arming
\* another accept and none is armed later; a read in flight is still
\* served and a handler in progress still advances; a further Stop()
\* changes nothing.
C10_StopSemantics ==
  /\ [](stops > 0 => ~acceptorOpen)
  /\ [][stops > 0 =>
          /\ \A c \in Conns :
               connState'[c] = "reading" => connState[c] = "reading"
          /\ acceptOp = "none" => acceptOp' = "none"
          /\ (\E t \in Threads : AcceptHandler(t)) => acceptOp' = "none"
          /\ stops' # stops =>
               UNCHANGED <<phase, cfgVars, gitVars, upstream, pushes,
                           observers, webVars, threadVars, lastAdd, applied>>
       ]_vars
  /\ [](\A t \in Workers :
          (stops > 0 /\ phase = "running" /\ lastAdd.obs = 0) =>
            /\ pc[t] = "idle" =>
                 \A c \in Conns :
                   connState[c] = "reading" => ENABLED ReadHandler(t, c)
            /\ pc[t] # "idle" => ENABLED Handlers(t))

\* Stop() was called twice, the aborted accept's handler has run, and a
\* connection accepted earlier still has its read in flight
C10_Witness ==
  /\ stops > 1
  /\ acceptOp = "none"
  /\ phase = "running"
  /\ \E c \in Conns : connState[c] = "reading"

\* the executor thread running the handler of the connection in slot c
HandlerOf(c) == {t \in Threads : conn[t] = c}

\* C11: on every accepted connection the listener issues one read; a read
\* that completed without error is followed by one acknowledgement write
\* and then by one call of the payload callback, made or about to be made
\* by the handler; a read that failed is followed by no write and no
\* callback, and nothing of it reaches the engine.
C11_ConnectionProtocol ==
  \A c \in Conns :
    /\ connState[c] # "unused" => io[c] # <<>> /\ io[c][1] = "read"
    /\ Cardinality({i \in 1..Len(io[c]) : io[c][i] = "read"}) <= 1
    /\ "read failed" \in Range(io[c]) =>
         /\ io[c] = <<"read", "read failed">>
         /\ sent[c] = <<>>
         /\ \A t \in HandlerOf(c) : payload[t] = <<>> /\ cyc[t] = NoCycle
    /\ "read ok" \in Range(io[c]) =>
         \/ /\ io[c] = <<"read", "read ok", "write">>
            /\ \E t \in HandlerOf(c) : pc[t] = "callback" /\ phase = "running"
         \/ /\ io[c] = <<"read", "read ok", "write", "callback">>
            /\ \E t \in HandlerOf(c) : pc[t] \notin {"idle", "callback", "dropped"}

\* C12: on every connection whose read succeeded the bytes written to the
\* peer are the 17 characters of "HTTP/1.0 200 OK\r\n" and nothing more,
\* whether the payload holds the token or not.
C12_AckIsTheLiteral ==
  \A c \in Conns :
    "read ok" \in Range(io[c]) =>
      /\ Len(sent[c]) = 17
      /\ sent[c] = Ack

\* the first bytes of msg that fit a read of at most n bytes
Truncated(msg, n) == SubSeq(msg, 1, Min(Len(msg), n))

\* C13: the payload handed to the callback is the bytes the read delivered,
\* at most 255 of them, followed by one terminating zero: it holds no other
\* byte, and a token lying within the first 255 bytes of what the peer sent
\* is found in it.
C13_PayloadIsBytesRead ==
  \A t \in Threads :
    payload[t] # <<>> =>
      LET msg == rcvd[conn[t]]
      IN  /\ payload[t] = Truncated(msg, ReadBudget) \o <<0>>
          /\ Contains(Truncated(msg, ReadBudget), token) =>
               Contains(payload[t], token)

\* C14: the mirror handle is released exactly once on every path: no call
\* of git_repository_free ever hits a handle already released; a
\* construction that failed holds no open handle when the error leaves it
\* (never acquired, or released in the catch block); a construction that
\* succeeded holds the open handle until the destructor releases it.
C14_HandleReleasedOnce ==
  /\ frees <= 1
  /\ frees = 1 <=> repo = "freed"
  /\ phase \in {"start", "building"} => repo = "null"
  /\ phase = "failed" => repo # "open"
  /\ (phase = "failed" /\ ~(isDir /\ repoExists)) => repo = "null"
  /\ phase \in {"constructed", "running"} => repo = "open"
  /\ phase = "destroyed" => repo = "freed"

\* the handle was opened, the fetch or the reset of the construction
\* failed, and the handle was released once before the constructor threw
C14_Witness ==
  /\ phase = "failed"
  /\ isDir
  /\ repoExists
  /\ repo = "freed"
  /\ frees = 1

\* C15: until construction has finished successfully no connection is
\* accepted and no payload reaches Callback, although the acceptor is bound
\* and an accept is armed from the member initialisers on; a handler runs
\* only on a mirror that was built; a failed construction leaves the
\* acceptor closed with no accept pending.
C15_ConstructionBeforeTriggers ==
  /\ phase \in {"start", "building", "failed"} =>
       /\ \A c \in Conns : connState[c] = "unused" /\ io[c] = <<>>
       /\ \A t \in Threads :
            pc[t] = "idle" /\ payload[t] = <<>> /\ cyc[t] = NoCycle
  /\ phase = "building" => acceptorOpen /\ acceptOp = "pending"
  /\ phase = "failed" => ~acceptorOpen /\ acceptOp = "none"
  /\ \A t \in Threads : pc[t] # "idle" => repo = "open"

\* the acceptor was bound and the accept armed, then the constructor's body
\* threw on a path that is no directory
C15_Witness ==
  /\ phase = "failed"
  /\ path # <<>>
  /\ ~isDir
  /\ ~acceptorOpen

\* the calls a cycle makes before it notifies, in the order of the claim
SyncSteps == <<"fetch", "diff", "reset">>

\* C16: a cycle runs fetch, diff, reset, notify in that order: the steps
\* done are always a prefix of fetch, diff, reset; the diff is the one from
\* the head the mirror had before the reset to the fetched head; no OnDiff
\* is made before all three steps succeeded and HEAD is at the fetched
\* head; a cycle that failed has returned at the failing step, having made
\* no call.
C16_CycleStepOrder ==
  \A t \in Threads :
    /\ cyc[t].steps = SubSeq(SyncSteps, 1, Len(cyc[t].steps))
    /\ InCycle(t) => cyc[t].outcome = "running"
    /\ pc[t] = "fetch" => cyc[t].steps = <<>>
    /\ pc[t] = "diff" => cyc[t].steps = <<"fetch">>
    /\ pc[t] = "reset" =>
         /\ cyc[t].steps = <<"fetch", "diff">>
         /\ head = cyc[t].preHead
         /\ diff[t] = GetFilesDiff(head, fetchHead)
    /\ (pc[t] = "notify" \/ Synced(t)) =>
         /\ cyc[t].steps = SyncSteps
         /\ diff[t] = GetFilesDiff(cyc[t].preHead, fetchHead)
         /\ head = fetchHead
    /\ cyc[t].calls # <<>> => (pc[t] = "notify" \/ Synced(t))
    /\ cyc[t].outcome = "aborted" =>
         /\ pc[t] = "return"
         /\ cyc[t].steps # <<>>
         /\ cyc[t].calls = <<>>

\* a cycle is half way through its notification pass: fetch, diff and reset
\* are done, one observer has its OnDiff, the next one not yet
C16_Witness ==
  \E t \in Threads :
    /\ pc[t] = "notify"
    /\ Len(cyc[t].calls) = 1
    /\ Len(observers) > 1
    /\ head # cyc[t].preHead

\* the paths of a list of the diff
Listed(pv) == Range(pv)

\* C17: GetFilesDiff classifies the paths by blob identity between the old
\* (HEAD) and the new (FETCH_HEAD) tree: a path present only in the new tree
\* is in added and not in removed; one present only in the old tree is in
\* removed and not in added; one present in both with different blobs is in
\* both lists; an unchanged path is in neither; no path is listed twice.
C17_DiffClassifiesByBlob ==
  \A t \in Threads :
    pc[t] = "reset" =>
      LET old == head
          new == fetchHead
          d == diff[t]
      IN  /\ \A p \in Paths :
               /\ (old[p] = 0 /\ new[p] # 0) =>
                    p \in Listed(d.added) /\ p \notin Listed(d.removed)
               /\ (old[p] # 0 /\ new[p] = 0) =>
                    p \in Listed(d.removed) /\ p \notin Listed(d.added)
               /\ (old[p] # 0 /\ new[p] # 0 /\ old[p] # new[p]) =>
                    p \in Listed(d.removed) /\ p \in Listed(d.added)
               /\ old[p] = new[p] =>
                    p \notin Listed(d.removed) /\ p \notin Listed(d.added)
          /\ Len(d.added) = Cardinality(Listed(d.added))
          /\ Len(d.removed) = Cardinality(Listed(d.removed))

\* a diff was computed between trees of which one path is only in the old
\* tree and another has a different blob in the new tree
C17_Witness ==
  \E t \in Threads :
    /\ pc[t] = "reset"
    /\ \E p, q \in Paths :
         /\ head[p] # 0 /\ fetchHead[p] = 0
         /\ head[q] # 0 /\ fetchHead[q] # 0 /\ head[q] # fetchHead[q]
         /\ diff[t].removed # <<>>
         /\ diff[t].added # <<>>

\* the observers the OnDiff calls of t's trigger went to, in call order
Called(t) == [i \in 1..Len(cyc[t].calls) |-> cyc[t].calls[i].obs]

\* C18: when a cycle whose fetch, diff and reset succeeded with a non-empty
\* diff returns, OnDiff has been called on every registered observer, in
\* registration order, whether or not an OnDiff before it threw.
C18_ObserversIndependent ==
  \A t \in Threads :
    (Synced(t) /\ ~DiffIsEmpty(diff[t])) => Called(t) = observers

\* C19: an observer is registered at most once however often AddObserver
\* is called with it, and receives exactly one OnDiff in a cycle that
\* completed its notification pass.
C19_RegistryIsASet ==
  /\ \A i, j \in 1..Len(observers) : observers[i] = observers[j] => i = j
  /\ \A t \in Threads :
       (pc[t] = "return" /\ cyc[t].outcome = "synced"
          /\ ~DiffIsEmpty(diff[t])) =>
         \A o \in Range(observers) : CallsTo(t, o, diff[t]) = 1

\* the path ends in one of the two separators
EndsInSeparator(str) == Back(str) \in {"/", "\\"}

\* C20: for a non-empty "path" option the member path is the option itself
\* when it ends in '/' or '\', and the option with one '/' appended
\* otherwise; normalising the member path again returns it unchanged.
C20_NormalizeIdempotent ==
  (phase = "building" /\ optPath # <<>>) =>
    /\ EndsInSeparator(optPath) => path = optPath
    /\ ~EndsInSeparator(optPath) => path = Append(optPath, "/")
    /\ NormalizeDirPath(path) = path

====
